---- MODULE Spec2Model ----
(***************************************************************************)
(* Model of ansible/filter_plugins/mounts.py: the three Jinja filters      *)
(* device_for_mount, uuid_for_mount and to_systemd_mount_unit.             *)
(*                                                                         *)
(* A Python str is a sequence of one-character strings, so that lstrip,    *)
(* replace, concatenation and substring tests are computed, not assumed.   *)
(* A mount record is a record with the fields mount, device, fstype, uuid. *)
(* The outcome of a call is [kind |-> "return", value |-> v] or            *)
(* [kind |-> "raise", value |-> message of the AnsibleFilterError].        *)
(***************************************************************************)
EXTENDS Integers, Sequences, FiniteSets, TLC

\* ---------------------------------------------------------------- bounds
MaxMounts == 2
MaxPathLen == 4

\* ------------------------------------------------------- input universes
\* Python's None, the default of the fstype parameter: a value no str equals.
None == <<"<None>">>

MountPoints == { <<"/">>, <<"/", "d">> }
AbsentMountPoints == { <<"/", "x">> }
QueryMountPoints == MountPoints \cup AbsentMountPoints
\* A block device and the UUID of the filesystem on it.
Disks == { [device |-> <<"s", "d", "a">>, uuid |-> <<"u", "1">>],
           [device |-> <<"s", "d", "b">>, uuid |-> <<"u", "2">>] }
Fstypes == { <<"e", "x", "t", "4">>, <<>> }
QueryFstypes == Fstypes \cup { <<"x", "f", "s">> }
PathChars == { "/", "a", "-" }

MountRecords ==
  { [mount |-> mp, device |-> d.device, fstype |-> f, uuid |-> d.uuid] :
      mp \in MountPoints, d \in Disks, f \in Fstypes }

RECURSIVE SeqsUpTo(_, _)
SeqsUpTo(S, n) ==
  IF n = 0 THEN { <<>> }
  ELSE LET shorter == SeqsUpTo(S, n - 1)
       IN shorter \cup { Append(s, x) : s \in { t \in shorter : Len(t) = n - 1 }, x \in S }

MountLists == SeqsUpTo(MountRecords, MaxMounts)
Paths == SeqsUpTo(PathChars, MaxPathLen)

\* ------------------------------------------------------- str primitives
\* Mutant of lstrip: removes one leading ch only, as str.removeprefix does.
lstrip_once(s, ch) ==
  IF s # <<>> /\ Head(s) = ch THEN Tail(s) ELSE s

\* str.lstrip(chars) for a one-character chars argument.
RECURSIVE lstrip(_, _)
lstrip(s, ch) ==
  IF s # <<>> /\ Head(s) = ch THEN lstrip(Tail(s), ch) ELSE s

\* Mutant of replace: replaces the first occurrence only, as count=1 does.
RECURSIVE replace_first(_, _, _)
replace_first(s, old, new) ==
  IF s = <<>> THEN <<>>
  ELSE IF Head(s) = old THEN <<new>> \o Tail(s)
       ELSE <<Head(s)>> \o replace_first(Tail(s), old, new)

\* str.replace(old, new) for one-character old and new.
RECURSIVE replace(_, _, _)
replace(s, old, new) ==
  IF s = <<>> THEN <<>>
  ELSE <<(IF Head(s) = old THEN new ELSE Head(s))>> \o replace(Tail(s), old, new)

\* Truth value of a str-or-None in a conditional: None and "" are falsy.
Truthy(v) == v # None /\ v # <<>>

Returned(v) == [kind |-> "return", value |-> v]
Raised(msg) == [kind |-> "raise", value |-> msg]

\* The literals of the source.
DotMount == <<".", "m", "o", "u", "n", "t">>
NoActiveMountFor ==
  <<"N", "o", " ", "a", "c", "t", "i", "v", "e", " ", "m", "o", "u", "n", "t", " ",
    "f", "o", "u", "n", "d", " ", "f", "o", "r", " ", "'">>
WithFstype == <<" ", "w", "i", "t", "h", " ", "f", "s", "t", "y", "p", "e", " ", "'">>
Quote == <<"'">>

\* f" with fstype '{fstype}'" if fstype else ""
FstypeClause(fstype) ==
  IF Truthy(fstype) THEN WithFstype \o fstype \o Quote ELSE <<>>

\* f"No active mount found for '{mountpoint}'"
NoMountMessage(mountpoint) == NoActiveMountFor \o mountpoint \o Quote

\* ------------------------------------------------------------ functions
\* Mutant of DeviceMatches: the fstype argument is ignored.
DeviceMatchesAnyFstype(m, mountpoint, fstype) == m.mount = mountpoint

\* The condition of the if in device_for_mount's loop.
DeviceMatches(m, mountpoint, fstype) ==
  m.mount = mountpoint /\ (fstype = None \/ m.fstype = fstype)

\* Mutant of UuidMatches: records without an fstype are passed over.
UuidMatchesTyped(m, mountpoint) == m.mount = mountpoint /\ m.fstype # <<>>

\* The condition of the if in uuid_for_mount's loop.
UuidMatches(m, mountpoint) == m.mount = mountpoint

\* Mutant of device_for_mount: the last matching record wins.
device_for_mount_last(mountpoint, ms, fstype) ==
  LET hits == { i \in 1..Len(ms) : DeviceMatches(ms[i], mountpoint, fstype) }
  IN IF hits = {}
     THEN Raised(NoMountMessage(mountpoint) \o FstypeClause(fstype))
     ELSE Returned(ms[CHOOSE i \in hits : \A j \in hits : j <= i].device)

RECURSIVE device_for_mount(_, _, _)
device_for_mount(mountpoint, ms, fstype) ==
  IF ms = <<>>
  THEN Raised(NoMountMessage(mountpoint) \o FstypeClause(fstype))
  ELSE IF DeviceMatches(Head(ms), mountpoint, fstype)
       THEN Returned(Head(ms).device)
       ELSE device_for_mount(mountpoint, Tail(ms), fstype)

\* Mutant of uuid_for_mount: an empty uuid instead of the error.
RECURSIVE uuid_for_mount_default(_, _)
uuid_for_mount_default(mountpoint, ms) ==
  IF ms = <<>>
  THEN Returned(<<>>)
  ELSE IF UuidMatches(Head(ms), mountpoint)
       THEN Returned(Head(ms).uuid)
       ELSE uuid_for_mount_default(mountpoint, Tail(ms))

RECURSIVE uuid_for_mount(_, _)
uuid_for_mount(mountpoint, ms) ==
  IF ms = <<>>
  THEN Raised(NoMountMessage(mountpoint))
  ELSE IF UuidMatches(Head(ms), mountpoint)
       THEN Returned(Head(ms).uuid)
       ELSE uuid_for_mount(mountpoint, Tail(ms))

to_systemd_mount_unit(path) ==
  Returned(replace(lstrip(path, "/"), "/", "-") \o DotMount)

\* ---------------------------------------------------------------- state
VARIABLES
  mounts,    \* the caller's list of mount records (ansible_facts['mounts'])
  call,      \* the filter call the host made last: [op, mountpoint, fstype, path]
  outcome,   \* what that call did: returned a value or raised
  prev,      \* the outcome a re-applied filter was fed with
  frames     \* per concurrent caller, the activation record of its call

vars == <<mounts, call, outcome, prev, frames>>

Callers == { "c1", "c2" }

NoCall == [op |-> "none", mountpoint |-> <<>>, fstype |-> None, path |-> <<>>]
NoOutcome == [kind |-> "none", value |-> <<>>]
IdleFrame == [pc |-> "idle", call |-> NoCall, i |-> 1, outcome |-> NoOutcome]

Init ==
  /\ mounts \in MountLists
  /\ call = NoCall
  /\ outcome = NoOutcome
  /\ prev = NoOutcome
  /\ frames = [c \in Callers |-> IdleFrame]

\* ------------------------------------------- the host calling the filters
\* Mutant of CallDeviceForMount: the scan pops the records it has passed.
CallDeviceForMountPopping(mountpoint, fstype) ==
  /\ call' = [op |-> "device_for_mount", mountpoint |-> mountpoint,
              fstype |-> fstype, path |-> <<>>]
  /\ outcome' = device_for_mount(mountpoint, mounts, fstype)
  /\ mounts' = IF outcome'.kind = "raise" THEN <<>> ELSE mounts

\* {{ mountpoint | device_for_mount(mounts) }} and ...(mounts, fstype=f)
CallDeviceForMount(mountpoint, fstype) ==
  /\ call' = [op |-> "device_for_mount", mountpoint |-> mountpoint,
              fstype |-> fstype, path |-> <<>>]
  /\ outcome' = device_for_mount(mountpoint, mounts, fstype)
  /\ mounts' = mounts

\* {{ mountpoint | uuid_for_mount(mounts) }}
CallUuidForMount(mountpoint) ==
  /\ call' = [op |-> "uuid_for_mount", mountpoint |-> mountpoint,
              fstype |-> None, path |-> <<>>]
  /\ outcome' = uuid_for_mount(mountpoint, mounts)
  /\ mounts' = mounts

\* {{ path | to_systemd_mount_unit }}
CallToSystemdMountUnit(path) ==
  /\ call' = [op |-> "to_systemd_mount_unit", mountpoint |-> <<>>,
              fstype |-> None, path |-> path]
  /\ outcome' = to_systemd_mount_unit(path)
  /\ mounts' = mounts

DeviceStep ==
  /\ call = NoCall
  /\ \E mp \in QueryMountPoints, f \in QueryFstypes \cup {None} : CallDeviceForMount(mp, f)
  /\ UNCHANGED <<prev, frames>>

UuidStep ==
  /\ call = NoCall
  /\ \E mp \in QueryMountPoints : CallUuidForMount(mp)
  /\ UNCHANGED <<prev, frames>>

UnitStep ==
  /\ call = NoCall
  /\ \E p \in Paths : CallToSystemdMountUnit(p)
  /\ UNCHANGED <<prev, frames>>

\* {{ path | to_systemd_mount_unit | to_systemd_mount_unit }}
ReapplyStep ==
  /\ call.op = "to_systemd_mount_unit"
  /\ prev = NoOutcome
  /\ outcome.kind = "return"
  /\ CallToSystemdMountUnit(outcome.value)
  /\ prev' = outcome
  /\ UNCHANGED frames

\* The host takes the value (or reports the error) and goes on rendering.
RenderStep ==
  /\ call # NoCall
  /\ call' = NoCall
  /\ outcome' = NoOutcome
  /\ prev' = NoOutcome
  /\ UNCHANGED <<mounts, frames>>

Next == DeviceStep \/ UuidStep \/ UnitStep \/ ReapplyStep \/ RenderStep

Spec == Init /\ [][Next]_vars

\* ------------------------------------ several callers, one step at a time
\* What the concurrent callers ask for.
ConcFstypes == { None, <<"e", "x", "t", "4">> }
ConcPaths == { <<"/">>, <<"/", "a", "/">> }

\* Mutant of LoopIndex: one iterator position for the whole module.
LoopIndexShared(c) == frames[CHOOSE d \in Callers : TRUE].i

\* The position of caller c's iterator over mounts: a local of its own call.
LoopIndex(c) == frames[c].i

\* Entering the for loop of a lookup: iter(mounts) starts at the first record.
BeginLookup(c, op, mountpoint, fstype) ==
  /\ frames[c].pc = "idle"
  /\ frames' = [frames EXCEPT ![c] =
       [pc |-> "loop",
        call |-> [op |-> op, mountpoint |-> mountpoint, fstype |-> fstype, path |-> <<>>],
        i |-> 1, outcome |-> NoOutcome]]
  /\ UNCHANGED <<mounts, call, outcome, prev>>

BeginDevice(c) ==
  \E mp \in QueryMountPoints, f \in ConcFstypes : BeginLookup(c, "device_for_mount", mp, f)

BeginUuid(c) ==
  \E mp \in QueryMountPoints : BeginLookup(c, "uuid_for_mount", mp, None)

BeginUnit(c) ==
  /\ frames[c].pc = "idle"
  /\ \E p \in ConcPaths :
       frames' = [frames EXCEPT ![c] =
         [pc |-> "eval",
          call |-> [op |-> "to_systemd_mount_unit", mountpoint |-> <<>>,
                    fstype |-> None, path |-> p],
          i |-> 1, outcome |-> NoOutcome]]
  /\ UNCHANGED <<mounts, call, outcome, prev>>

\* One turn of "for m in mounts": the next record, the if, and the return;
\* or the end of the list and the raise after the loop.
LoopStep(c) ==
  /\ frames[c].pc = "loop"
  /\ LET fr == frames[c]
         i == LoopIndex(c)
         dev == fr.call.op = "device_for_mount"
     IN IF i > Len(mounts)
        THEN frames' = [frames EXCEPT ![c].pc = "done", ![c].outcome =
               Raised(NoMountMessage(fr.call.mountpoint)
                      \o (IF dev THEN FstypeClause(fr.call.fstype) ELSE <<>>))]
        ELSE IF (IF dev THEN DeviceMatches(mounts[i], fr.call.mountpoint, fr.call.fstype)
                        ELSE UuidMatches(mounts[i], fr.call.mountpoint))
             THEN frames' = [frames EXCEPT ![c].pc = "done", ![c].outcome =
                    Returned(IF dev THEN mounts[i].device ELSE mounts[i].uuid)]
             ELSE frames' = [frames EXCEPT ![c].i = i + 1]
  /\ UNCHANGED <<mounts, call, outcome, prev>>

\* The single expression of to_systemd_mount_unit.
EvalUnit(c) ==
  /\ frames[c].pc = "eval"
  /\ frames' = [frames EXCEPT ![c].pc = "done",
                              ![c].outcome = to_systemd_mount_unit(frames[c].call.path)]
  /\ UNCHANGED <<mounts, call, outcome, prev>>

\* The caller takes the outcome; the activation record is gone.
Finish(c) ==
  /\ frames[c].pc = "done"
  /\ frames' = [frames EXCEPT ![c] = IdleFrame]
  /\ UNCHANGED <<mounts, call, outcome, prev>>

NextConc ==
  \E c \in Callers :
    BeginDevice(c) \/ BeginUuid(c) \/ BeginUnit(c) \/ LoopStep(c) \/ EvalUnit(c) \/ Finish(c)

SpecConc == Init /\ [][NextConc]_vars

\* ------------------------------------------------- vocabulary of the claims
IsLookup == call.op \in { "device_for_mount", "uuid_for_mount" }
IsDevice == call.op = "device_for_mount"
IsUuid == call.op = "uuid_for_mount"
IsUnit == call.op = "to_systemd_mount_unit"

\* sub occurs in s as a contiguous run of characters.
Contains(s, sub) ==
  \E k \in 0..(Len(s) - Len(sub)) : SubSeq(s, k + 1, k + Len(sub)) = sub

\* The indices of the records of mounts with the mount point mp
\* and, when f is a str, the fstype f.
Hits(mp, f) ==
  { i \in 1..Len(mounts) : mounts[i].mount = mp /\ (f = None \/ mounts[i].fstype = f) }

Lowest(S) == CHOOSE i \in S : \A j \in S : i <= j

\* The number of '/' characters a path starts with.
LeadingSlashes(p) ==
  CHOOSE k \in 0..Len(p) :
    /\ \A j \in 1..k : p[j] = "/"
    /\ k = Len(p) \/ p[k + 1] # "/"

\* ------------------------------------------------------------------ claims

\* C1: without fstype, device_for_mount returns the device of the record with
\* the lowest index among the records whose mount is the mount point asked for.
C1_FirstMatchWins ==
  (IsDevice /\ call.fstype = None /\ Hits(call.mountpoint, None) # {}) =>
    outcome = Returned(mounts[Lowest(Hits(call.mountpoint, None))].device)

\* Two records share the mount point, carry different devices, and the call
\* returned the first one's.
C1_Witness ==
  /\ IsDevice /\ call.fstype = None
  /\ Cardinality(Hits(call.mountpoint, None)) >= 2
  /\ \E i, j \in Hits(call.mountpoint, None) : mounts[i].device # mounts[j].device
  /\ outcome.kind = "return"

\* C2: with fstype f, device_for_mount returns the device of the first record
\* that has both the mount point and the fstype f, skipping earlier records of
\* that mount point with another fstype; with no such record it raises, also
\* when a record of that mount point with another fstype exists.
C2_FstypeFilter ==
  (IsDevice /\ call.fstype # None) =>
    IF Hits(call.mountpoint, call.fstype) # {}
    THEN outcome = Returned(mounts[Lowest(Hits(call.mountpoint, call.fstype))].device)
    ELSE outcome.kind = "raise"

\* The first record has the mount point but another fstype and another
\* device; the call skipped it and returned the second record's device.
C2_Witness ==
  /\ IsDevice /\ call.fstype # None
  /\ Len(mounts) >= 2
  /\ mounts[1].mount = call.mountpoint /\ mounts[1].fstype # call.fstype
  /\ mounts[2].mount = call.mountpoint /\ mounts[2].fstype = call.fstype
  /\ mounts[1].device # mounts[2].device
  /\ outcome = Returned(mounts[2].device)

\* C3: for a mount point that no record of mounts has, both lookups raise and
\* the message contains the mount point; a lookup returns a value exactly when
\* some record satisfies the predicate of the query.
C3_AbsentMountRaises ==
  IsLookup =>
    /\ Hits(call.mountpoint, None) = {} =>
         outcome.kind = "raise" /\ Contains(outcome.value, call.mountpoint)
    /\ outcome.kind = "return" <=> Hits(call.mountpoint, call.fstype) # {}
    /\ outcome.kind \in { "return", "raise" }

\* uuid_for_mount raised for a mount point missing from a non-empty list.
C3_Witness ==
  /\ IsUuid /\ mounts # <<>>
  /\ Hits(call.mountpoint, None) = {}
  /\ outcome.kind = "raise"

\* C4: when device_for_mount is called with an fstype argument (any str, the
\* empty one included) and raises, the message names that fstype besides the
\* mount point; without the argument the message names the mount point only.
C4_MessageNamesFstype ==
  (IsDevice /\ outcome.kind = "raise") =>
    LET msg == outcome.value
        base == NoActiveMountFor \o call.mountpoint \o Quote
    IN IF call.fstype = None
       THEN msg = base
       ELSE /\ Len(msg) > Len(base)
            /\ SubSeq(msg, 1, Len(base)) = base
            /\ Contains(SubSeq(msg, Len(base) + 1, Len(msg)), call.fstype)

\* C5: uuid_for_mount fails exactly when device_for_mount without fstype
\* fails; when they succeed both take the first record with the mount point,
\* one its uuid and the other its device; no record's fstype matters.
C5_UuidLikeDevice ==
  IsUuid =>
    LET dev == device_for_mount(call.mountpoint, mounts, None)
        hits == Hits(call.mountpoint, None)
    IN /\ outcome.kind = dev.kind
       /\ outcome.kind = "raise" => outcome.value = dev.value
       /\ outcome.kind = "return" =>
            /\ hits # {}
            /\ outcome.value = mounts[Lowest(hits)].uuid
            /\ dev.value = mounts[Lowest(hits)].device
       /\ \A f \in Fstypes :
            uuid_for_mount(call.mountpoint,
                           [i \in 1..Len(mounts) |-> [mounts[i] EXCEPT !.fstype = f]])
              = outcome

\* uuid_for_mount returned the uuid of the second record, after a first
\* record of another mount point, with a third candidate of another uuid.
C5_Witness ==
  /\ IsUuid /\ Len(mounts) >= 2
  /\ mounts[1].mount # call.mountpoint
  /\ mounts[2].mount = call.mountpoint
  /\ mounts[1].uuid # mounts[2].uuid
  /\ mounts[1].fstype # mounts[2].fstype
  /\ outcome = Returned(mounts[2].uuid)

\* C6: to_systemd_mount_unit never fails and returns the path without its
\* leading '/' characters, every '/' left replaced by '-', followed by
\* ".mount"; /mnt/foo gives mnt-foo.mount, / gives .mount, /a/b/c a-b-c.mount.
C6_UnitName ==
  /\ IsUnit =>
       /\ outcome.kind = "return"
       /\ LET p == call.path
              k == LeadingSlashes(p)
              r == outcome.value
          IN /\ Len(r) = Len(p) - k + 6
             /\ \A j \in 1..(Len(p) - k) :
                  r[j] = IF p[k + j] = "/" THEN "-" ELSE p[k + j]
             /\ SubSeq(r, Len(p) - k + 1, Len(r)) = <<".", "m", "o", "u", "n", "t">>
  /\ to_systemd_mount_unit(<<"/", "m", "n", "t", "/", "f", "o", "o">>)
       = Returned(<<"m", "n", "t", "-", "f", "o", "o", ".", "m", "o", "u", "n", "t">>)
  /\ to_systemd_mount_unit(<<"/">>) = Returned(<<".", "m", "o", "u", "n", "t">>)
  /\ to_systemd_mount_unit(<<"/", "a", "/", "b", "/", "c">>)
       = Returned(<<"a", "-", "b", "-", "c", ".", "m", "o", "u", "n", "t">>)

\* A path with two leading '/' and a later '/' was converted.
C6_Witness ==
  /\ IsUnit /\ Len(call.path) >= 4
  /\ LeadingSlashes(call.path) = 2
  /\ call.path[Len(call.path)] = "/"
  /\ outcome.kind = "return"

\* C7: if applying to_systemd_mount_unit to its own result gives that result
\* again, the result does not start with '/'.
C7_IdempotentOnlyIfNoLeadingSlash ==
  (IsUnit /\ prev.kind = "return" /\ outcome = prev) =>
    (prev.value = <<>> \/ Head(prev.value) # "/")

\* Re-application is never a fixed point: it appends a second ".mount" to a
\* result that holds no '/', so the case C7 is about does not arise.
ReapplicationAppendsSuffix ==
  (IsUnit /\ prev.kind = "return") => outcome.value = prev.value \o DotMount

\* C8: no call changes the caller's list of mount records, whether it returns
\* or raises: same length, same order, same fields.
C8_MountsUntouched == [][mounts' = mounts]_vars

\* A lookup raised over a non-empty list, which is as it was.
C8_Witness ==
  /\ IsLookup /\ outcome.kind = "raise"
  /\ Len(mounts) >= 2

\* C9: under any interleaving of the callers' steps over the same list, a
\* call ends with the outcome the same call has when it runs alone.
RunAlone(c) ==
  LET q == frames[c].call
  IN CASE q.op = "device_for_mount" -> device_for_mount(q.mountpoint, mounts, q.fstype)
       [] q.op = "uuid_for_mount" -> uuid_for_mount(q.mountpoint, mounts)
       [] q.op = "to_systemd_mount_unit" -> to_systemd_mount_unit(q.path)

C9_InterleavingSafe ==
  \A c \in Callers : frames[c].pc = "done" => frames[c].outcome = RunAlone(c)

\* One caller is done with a value from the second record while the other
\* is in the middle of its own loop over the same list.
C9_Witness ==
  \E c, d \in Callers :
    /\ c # d
    /\ frames[c].pc = "done" /\ frames[c].outcome.kind = "return" /\ frames[c].i = 2
    /\ frames[d].pc = "loop" /\ frames[d].i = 2
    /\ frames[c].call # frames[d].call

\* C10: the result of to_systemd_mount_unit holds no '/', ends with ".mount",
\* and is as long as the path without its leading '/' characters, plus 6.
C10_UnitNameShape ==
  IsUnit =>
    LET r == outcome.value
        n == Len(r)
    IN /\ \A j \in 1..n : r[j] # "/"
       /\ n >= 6 /\ SubSeq(r, n - 5, n) = <<".", "m", "o", "u", "n", "t">>
       /\ n = Len(call.path) - LeadingSlashes(call.path) + 6

\* A path of '/' characters only was converted to ".mount".
C10_Witness ==
  /\ IsUnit /\ Len(call.path) >= 2
  /\ LeadingSlashes(call.path) = Len(call.path)
  /\ Len(outcome.value) = 6
====
